---------------------------- MODULE Spec2Model ----------------------------
(***************************************************************************)
(* A model of ransac.cpp: the RANSAC line extractor over an angle-sorted   *)
(* array of nodes (Ransac::compute and its helpers pop_node,               *)
(* restore_trial, compute_reg_line and dst2_to_line).                      *)
(*                                                                         *)
(* Numbers.  A node's x, y and angle are binary32 floats; the model draws  *)
(* them from integer values, which binary32 holds exactly up to 2^24.      *)
(* compute_reg_line multiplies two floats in binary32 (n.x * n.x and       *)
(* n.x * n.y) before it adds the product to a double sum: Fl32 rounds the  *)
(* product to a 24 bit significand, ties to even, as the hardware does.    *)
(* The double sums and products stay below 2^53 for every value drawn here *)
(* and are therefore exact integers.  A fitted line is kept as the two     *)
(* quotients the code divides out (m_num / m_denom, b_num / b_denom); the  *)
(* final rounding of each quotient to binary32 and the roundings inside    *)
(* dst2_to_line are not modelled, the distance test is decided on the      *)
(* exact quotients.  proximity_epsilon is held in tenths.                  *)
(*                                                                         *)
(* Arrays are functions over 0 .. N-1, so that every index of the model is *)
(* the index of the source.                                                *)
(***************************************************************************)
EXTENDS Integers, Sequences, FiniteSets, Bags, TLC

VARIABLES
    max_trials,          \* Ransac::max_trials
    sample_size,         \* Ransac::sample_size
    sample_deviation,    \* Ransac::sample_deviation
    proximity_epsilon,   \* Ransac::proximity_epsilon, in tenths
    line_consensus,      \* Ransac::line_consensus
    reg_lines,           \* Ransac::reg_lines, the result sequence
    nodes,               \* the caller's array, nodes[0 .. N-1]
    size,                \* compute's local size (the active range is [0, size))
    original_size,       \* compute's local original_size
    trial_count,         \* compute's local trial_count
    original_trial_size, \* compute's local original_trial_size
    ref_index,           \* compute's local ref_index
    ref_angle,           \* compute's local ref_angle
    i,                   \* the counter of the for loop being run
    line,                \* compute's local line
    line_status,         \* compute's local line_status
    pc,                  \* the position in compute
    calls,               \* number of compute calls started on this object
    nodes0,              \* history: the array as passed to the running call
    trial_nodes,         \* history: the array when the running trial started
    ref_node,            \* history: the node drawn as reference
    call_lines,          \* history: lines accepted by the running call
    prev_lines,          \* history: reg_lines when the running call was entered
    last_pop,            \* history: argument of the last pop_node call, -1 if none
    trial_hist,          \* history: what the running trial has done so far
    consumed             \* history: for each trial of the running call that
                         \* pushed a line, the range [lo, hi) it removed and
                         \* the array as it then was

cfg_vars == <<max_trials, sample_size, sample_deviation, proximity_epsilon,
              line_consensus>>
loc_vars == <<size, original_size, trial_count, original_trial_size, ref_index,
              ref_angle, i, line, line_status>>
hist_vars == <<nodes0, trial_nodes, ref_node, call_lines, prev_lines, last_pop,
               trial_hist, consumed>>
vars == <<cfg_vars, reg_lines, nodes, loc_vars, pc, calls, hist_vars>>

-----------------------------------------------------------------------------
(* Bounds of the model. *)

\* Longest array passed to compute.
MaxN == 3
\* Largest max_trials a Ransac object is built with.
MaxTrials == 2
\* Largest sample_size a Ransac object is built with.
MaxSample == 2
\* compute calls made on one object.
MaxCalls == 2
\* Longest array handed to a helper called on its own.
MaxUnitLen == 3

-----------------------------------------------------------------------------
(* Values. *)

Node(px, py, pa) == [x |-> px, y |-> py, angle |-> pa]

\* The value of a line_t that was not assigned.
NoLine == [m_num |-> 0, m_denom |-> 0, b_num |-> 0, b_denom |-> 0]

Abs(v) == IF v < 0 THEN -v ELSE v

\* Number of array elements.
Len0(nd) == Cardinality(DOMAIN nd)

\* The bag of the nodes held at indices [lo, hi).
RECURSIVE BagOfRange(_, _, _)
BagOfRange(nd, lo, hi) ==
    IF lo >= hi THEN EmptyBag
    ELSE BagOfRange(nd, lo, hi - 1) (+) SetToBag({nd[hi - 1]})

BagOf(nd) == BagOfRange(nd, 0, Len0(nd))

\* nodes[lo, hi) ascending by angle.
SortedByAngle(nd, lo, hi) ==
    \A j \in lo .. hi - 2 : nd[j].angle <= nd[j + 1].angle

\* All arrays of exactly n nodes of S.
ArraysOfLen(S, n) == [0 .. n - 1 -> S]

ArraysUpTo(S, n) == UNION {ArraysOfLen(S, k) : k \in 0 .. n}

-----------------------------------------------------------------------------
(* binary32 rounding of an integer: exact below 2^24, otherwise to the     *)
(* nearest multiple of the unit in the last place, ties to the even        *)
(* significand.                                                            *)

RECURSIVE UlpOf(_, _)
UlpOf(v, u) == IF v < 16777216 * u THEN u ELSE UlpOf(v, 2 * u)

Fl32(v) ==
    LET a == Abs(v)
        u == UlpOf(a, 1)
        q == a \div u
        r == a % u
        up == (2 * r > u) \/ (2 * r = u /\ q % 2 = 1)
        res == IF up THEN (q + 1) * u ELSE q * u
    IN IF v < 0 THEN -res ELSE res

\* a * b - c * d for doubles whose products need more than 31 bits: the
\* same integer, evaluated in two halves.
MulSub(a, b, c, d) ==
    LET bh == b \div 4096
        bl == b % 4096
        dh == d \div 4096
        dl == d % 4096
    IN (a * bh - c * dh) * 4096 + (a * bl - c * dl)

-----------------------------------------------------------------------------
(* Ransac::pop_node(node, nodes, size): the array and the size, which is   *)
(* passed by reference, after the call.                                    *)

\* pop_node without its line 249: the popped node is not written back.
pop_nodeLosesNode(node, nd, sz) ==
    [nodes |-> [j \in DOMAIN nd |->
                   IF j >= node /\ j < sz - 1 THEN nd[j + 1] ELSE nd[j]],
     size |-> sz - 1]

\* pop_node moving the last active node into the hole instead of shifting.
pop_nodeSwaps(node, nd, sz) ==
    [nodes |-> [j \in DOMAIN nd |->
                   IF j = node THEN nd[sz - 1]
                   ELSE IF j = sz - 1 THEN nd[node]
                   ELSE nd[j]],
     size |-> sz - 1]

pop_node(node, nd, sz) ==
    [nodes |-> [j \in DOMAIN nd |->
                   IF j >= node /\ j < sz - 1 THEN nd[j + 1]
                   ELSE IF j = sz - 1 THEN nd[node]
                   ELSE nd[j]],
     size |-> sz - 1]

-----------------------------------------------------------------------------
(* Ransac::restore_trial(nodes, ref_index, original_size, size): a         *)
(* selection sort of nodes[0, original_size) by angle; size, passed by     *)
(* reference, is set to original_size.  ref_index is not used.             *)

\* The inner loop with < for >: the index of the first smallest angle.
RECURSIVE SelectSmallest(_, _, _, _)
SelectSmallest(nd, select, j, hi) ==
    IF j > hi THEN select
    ELSE IF nd[j].angle < nd[select].angle
         THEN SelectSmallest(nd, j, j + 1, hi)
         ELSE SelectSmallest(nd, select, j + 1, hi)

\* The inner loop: the index of the first largest angle of nodes[0 .. hi],
\* scanning j upwards from select.
RECURSIVE SelectLargest(_, _, _, _)
SelectLargest(nd, select, j, hi) ==
    IF j > hi THEN select
    ELSE IF nd[j].angle > nd[select].angle
         THEN SelectLargest(nd, j, j + 1, hi)
         ELSE SelectLargest(nd, select, j + 1, hi)

\* Swap of nodes[a] and nodes[b].
SwapNodes(nd, a, b) ==
    [j \in DOMAIN nd |-> IF j = a THEN nd[b] ELSE IF j = b THEN nd[a] ELSE nd[j]]

\* The outer loop, from index hi down to 1.
RECURSIVE SortDown(_, _)
SortDown(nd, hi) ==
    IF hi <= 0 THEN nd
    ELSE SortDown(SwapNodes(nd, hi, SelectLargest(nd, 0, 1, hi)), hi - 1)

\* restore_trial with its outer loop started one index too low.
restore_trialShort(nd, orig_size) ==
    [nodes |-> SortDown(nd, orig_size - 2), size |-> orig_size]

\* restore_trial given the length of the array for the size of the trial.
restore_trialToCallSize(nd, orig_size) ==
    [nodes |-> SortDown(nd, Len0(nd) - 1), size |-> Len0(nd)]

restore_trial(nd, orig_size) ==
    [nodes |-> SortDown(nd, orig_size - 1), size |-> orig_size]

\* The indices restore_trial reads or writes: i, j and select of lines
\* 220-231 stay within [0, original_size); no pass runs for a size below 2.
restore_trialIndices(orig_size) ==
    IF orig_size - 1 > 0 THEN 0 .. orig_size - 1 ELSE {}

\* The indices pop_node reads or writes: node (line 243), i and i + 1 for
\* node <= i < size - 1 (lines 245-247), size - 1 (line 249).
pop_nodeIndices(node, sz) ==
    {node, sz - 1} \cup {k \in node .. sz - 2 : TRUE}
                  \cup {k + 1 : k \in node .. sz - 2}

-----------------------------------------------------------------------------
(* Ransac::compute_reg_line(start, end, nodes, line): the status and the   *)
(* line written.  line is left alone when the fit fails.                   *)

RECURSIVE SumX(_, _, _)
SumX(nd, lo, hi) == IF lo >= hi THEN 0 ELSE SumX(nd, lo, hi - 1) + nd[hi - 1].x

RECURSIVE SumY(_, _, _)
SumY(nd, lo, hi) == IF lo >= hi THEN 0 ELSE SumY(nd, lo, hi - 1) + nd[hi - 1].y

\* x2_sum fed with n.x for n.x * n.x.
SumX2Unsquared(nd, lo, hi) == SumX(nd, lo, hi)

RECURSIVE SumX2(_, _, _)
SumX2(nd, lo, hi) ==
    IF lo >= hi THEN 0
    ELSE SumX2(nd, lo, hi - 1) + Fl32(nd[hi - 1].x * nd[hi - 1].x)

RECURSIVE SumXY(_, _, _)
SumXY(nd, lo, hi) ==
    IF lo >= hi THEN 0
    ELSE SumXY(nd, lo, hi - 1) + Fl32(nd[hi - 1].x * nd[hi - 1].y)

compute_reg_line(start, end, nd, old_line) ==
    LET node_count == end - start
        x_sum == SumX(nd, start, end)
        y_sum == SumY(nd, start, end)
        x2_sum == SumX2(nd, start, end)
        xy_sum == SumXY(nd, start, end)
        m_num == (node_count * xy_sum) - (x_sum * y_sum)
        m_denom == (node_count * x2_sum) - (x_sum * x_sum)
        b_num == MulSub(y_sum, x2_sum, x_sum, xy_sum)
        b_denom == (node_count * x2_sum) - (x_sum * x_sum)
    IN IF node_count = 0 THEN [status |-> -1, line |-> old_line]
       ELSE IF m_denom = 0 THEN [status |-> -1, line |-> old_line]
       ELSE IF b_denom = 0 THEN [status |-> -1, line |-> old_line]
       ELSE [status |-> 0,
             line |-> [m_num |-> m_num, m_denom |-> m_denom,
                       b_num |-> b_num, b_denom |-> b_denom]]

-----------------------------------------------------------------------------
(* Ransac::dst2_to_line(line, x, y) <= proximity_epsilon *                 *)
(* proximity_epsilon, the test compute makes.  With m = m_num / d and      *)
(* b = b_num / d (the two denominators of a fitted line are the same       *)
(* number d), dst2 = r^2 / (m_num^2 + d^2) for r = -m_num x + d y - b_num. *)
(* eps is in tenths.  A residual too large to square is above any          *)
(* threshold the model reaches.                                            *)

Dst2WithinEps(ln, px, py, eps) ==
    LET d == ln.m_denom
        r == Abs(((-ln.m_num) * px) + (d * py) - ln.b_num)
    IN IF r * 10 > 46340 THEN FALSE
       ELSE (r * 10) * (r * 10) <= (eps * eps) * ((ln.m_num * ln.m_num) + (d * d))

-----------------------------------------------------------------------------
(* Ransac::compute(nodes, size), one action per step of its control flow.  *)

\* compute without its line 85.
ClearLinesMissing(lines) == lines

\* reg_lines.clear()
ClearLines(lines) == << >>

\* The draws rand() % size can make.
RandomRefs(sz) == 0 .. sz - 1

\* The neighbour examined by pass k of the sampling loop.
Pick(k, ref, sz) ==
    IF k % 2 = 0 THEN ((ref - 1) + sz) % sz ELSE (ref + 1) % sz

\* The admission test without its deviation half.
PickAcceptedAnyAngle(nd, pick, ref, rangle, dev) == pick # ref

\* The test that admits the neighbour at index pick to the seed cluster.
PickAccepted(nd, pick, ref, rangle, dev) ==
    pick # ref /\ Abs(nd[pick].angle - rangle) <= dev

\* The while test with <= for <.
WhileTestOffByOne(sz, count, trials) == sz > 0 /\ count <= trials

\* The while test without its test of the size.
WhileTestNoSize(sz, count, trials) == count < trials

\* The test of the while loop.
WhileTest(sz, count, trials) == sz > 0 /\ count < trials

\* The consensus test with > for >=.
ConsensusMetStrict(popped_nodes, consensus, status) ==
    popped_nodes > consensus /\ status = 0

\* The consensus test met one node early.
ConsensusMetOneShort(popped_nodes, consensus, status) ==
    popped_nodes + 1 >= consensus /\ status = 0

\* The consensus test without its count.
ConsensusMetAnyCount(popped_nodes, consensus, status) ==
    status = 0

\* The consensus test made after association.
ConsensusMet(popped_nodes, consensus, status) ==
    popped_nodes >= consensus /\ status = 0

\* The indices compute_reg_line reads: i of line 188.
compute_reg_lineIndices(start, end) == start .. end - 1

\* The indices of the array that the step about to run reads or writes,
\* whatever it draws.
StepIndices ==
    CASE pc = "loop" /\ WhileTest(size, trial_count, max_trials) ->
            RandomRefs(size)
      [] pc = "grow" /\ size > 0 ->
            LET pick == Pick(i, ref_index, size)
            IN IF pick = ref_index THEN {}
               ELSE {pick} \cup
                    IF PickAccepted(nodes, pick, ref_index, ref_angle,
                                    sample_deviation)
                    THEN pop_nodeIndices(pick, size) ELSE {}
      [] pc = "popref" -> pop_nodeIndices(ref_index, size)
      [] pc = "fitseed" ->
            IF original_trial_size - size >= 2
            THEN compute_reg_lineIndices(size, original_trial_size) ELSE {}
      [] pc = "assoc" ->
            {i} \cup
            IF Dst2WithinEps(line, nodes[i].x, nodes[i].y, proximity_epsilon)
            THEN pop_nodeIndices(i, size) ELSE {}
      [] pc = "consensus" ->
            IF ConsensusMet(original_trial_size - size, line_consensus,
                            line_status)
            THEN compute_reg_lineIndices(size, original_trial_size) ELSE {}
      [] pc = "restore" -> restore_trialIndices(original_trial_size)
      [] OTHER -> {}

\* The history of a trial that has not started: no fit has run (-2), no
\* seed cluster has been measured (-1).
NoTrial ==
    [lines_before |-> << >>, seed_size |-> -1, seed_status |-> -2,
     popped |-> -1, final_status |-> -2, restored |-> FALSE,
     scan_nodes |-> << >>, evals |-> << >>]

\* compute is entered: lines 82-87.  The caller passes its buffer and the
\* number of nodes in it.
ComputeEnter ==
    /\ pc = "idle"
    /\ calls < MaxCalls
    /\ calls' = calls + 1
    /\ reg_lines' = ClearLines(reg_lines)
    /\ size' = Len0(nodes)
    /\ original_size' = Len0(nodes)
    /\ trial_count' = 0
    /\ nodes0' = nodes
    /\ call_lines' = << >>
    /\ prev_lines' = reg_lines
    /\ last_pop' = -1
    /\ trial_hist' = NoTrial
    /\ consumed' = << >>
    /\ pc' = "loop"
    /\ UNCHANGED <<cfg_vars, nodes, original_trial_size, ref_index, ref_angle, i,
                   line, line_status, trial_nodes, ref_node>>

\* The while test fails and compute returns: lines 90, 171-172.
ComputeReturn ==
    /\ pc = "loop"
    /\ ~WhileTest(size, trial_count, max_trials)
    /\ pc' = "idle"
    /\ UNCHANGED <<cfg_vars, reg_lines, nodes, loc_vars, calls, hist_vars>>

\* A trial starts and draws its reference: lines 90-94.  line and
\* line_status are locals of the loop body, new and unset in every trial;
\* neither is read before it is assigned.
SeedSelect ==
    /\ pc = "loop"
    /\ WhileTest(size, trial_count, max_trials)
    /\ original_trial_size' = size
    /\ \E r \in RandomRefs(size) :
          /\ ref_index' = r
          /\ ref_angle' = nodes[r].angle
          /\ ref_node' = nodes[r]
    /\ trial_nodes' = nodes
    /\ trial_hist' = [NoTrial EXCEPT !.lines_before = reg_lines]
    /\ last_pop' = -1
    /\ i' = 0
    /\ line' = NoLine
    /\ line_status' = -1
    /\ pc' = IF 0 < sample_size THEN "grow" ELSE "popref"
    /\ UNCHANGED <<cfg_vars, reg_lines, nodes, size, original_size, trial_count,
                   calls, nodes0, call_lines, prev_lines, consumed>>

\* A pass of the sampling loop without the correction of line 114.
GrowStepKeepsRefIndex ==
    /\ pc = "grow"
    /\ LET pick == Pick(i, ref_index, size)
       IN IF PickAccepted(nodes, pick, ref_index, ref_angle, sample_deviation)
          THEN /\ nodes' = pop_node(pick, nodes, size).nodes
               /\ size' = pop_node(pick, nodes, size).size
               /\ last_pop' = pick
          ELSE UNCHANGED <<nodes, size, last_pop>>
    /\ i' = i + 1
    /\ pc' = IF i + 1 < sample_size THEN "grow" ELSE "popref"
    /\ UNCHANGED <<cfg_vars, reg_lines, original_size, trial_count,
                   original_trial_size, ref_index, ref_angle, line, line_status,
                   calls, nodes0, trial_nodes, ref_node, call_lines, prev_lines,
                   trial_hist, consumed>>

\* One pass of the sampling loop: lines 97-116.
GrowStep ==
    /\ pc = "grow"
    /\ LET pick == Pick(i, ref_index, size)
       IN IF PickAccepted(nodes, pick, ref_index, ref_angle, sample_deviation)
          THEN /\ nodes' = pop_node(pick, nodes, size).nodes
               /\ size' = pop_node(pick, nodes, size).size
               /\ ref_index' = IF pick < ref_index THEN ref_index - 1 ELSE ref_index
               /\ last_pop' = pick
          ELSE UNCHANGED <<nodes, size, ref_index, last_pop>>
    /\ i' = i + 1
    /\ pc' = IF i + 1 < sample_size THEN "grow" ELSE "popref"
    /\ UNCHANGED <<cfg_vars, reg_lines, original_size, trial_count,
                   original_trial_size, ref_angle, line, line_status, calls,
                   nodes0, trial_nodes, ref_node, call_lines, prev_lines,
                   trial_hist, consumed>>

\* The reference is popped: line 119.
PopRef ==
    /\ pc = "popref"
    /\ nodes' = pop_node(ref_index, nodes, size).nodes
    /\ size' = pop_node(ref_index, nodes, size).size
    /\ last_pop' = ref_index
    /\ pc' = "fitseed"
    /\ UNCHANGED <<cfg_vars, reg_lines, original_size, trial_count,
                   original_trial_size, ref_index, ref_angle, i, line, line_status,
                   calls, nodes0, trial_nodes, ref_node, call_lines, prev_lines,
                   trial_hist, consumed>>

\* The seed cluster nodes[size, original_trial_size) is fitted: lines 122-131.
FitSeed ==
    /\ pc = "fitseed"
    /\ LET sample_start == size
           sample_end == original_trial_size
           fit == IF sample_end - sample_start >= 2
                  THEN compute_reg_line(sample_start, sample_end, nodes, line)
                  ELSE [status |-> -1, line |-> line]
       IN /\ line_status' = fit.status
          /\ line' = fit.line
          /\ i' = size - 1
          /\ trial_hist' = [trial_hist EXCEPT
                               !.seed_size = sample_end - sample_start,
                               !.seed_status = fit.status,
                               !.scan_nodes = IF fit.status = 0 THEN nodes ELSE @]
          /\ pc' = IF fit.status = 0 /\ size - 1 >= 0 THEN "assoc" ELSE "consensus"
    /\ UNCHANGED <<cfg_vars, reg_lines, nodes, size, original_size, trial_count,
                   original_trial_size, ref_index, ref_angle, calls, nodes0,
                   trial_nodes, ref_node, call_lines, prev_lines, last_pop,
                   consumed>>

\* A pass of the association loop that steps over the next index after a
\* pop.
AssocStepSkipsAfterPop ==
    /\ pc = "assoc"
    /\ LET hit == Dst2WithinEps(line, nodes[i].x, nodes[i].y, proximity_epsilon)
           step == IF hit THEN 2 ELSE 1
       IN /\ IF hit
             THEN /\ nodes' = pop_node(i, nodes, size).nodes
                  /\ size' = pop_node(i, nodes, size).size
                  /\ last_pop' = i
             ELSE UNCHANGED <<nodes, size, last_pop>>
          /\ i' = i - step
          /\ pc' = IF i - step >= 0 THEN "assoc" ELSE "consensus"
    /\ trial_hist' = [trial_hist EXCEPT !.evals = Append(@, i)]
    /\ UNCHANGED <<cfg_vars, reg_lines, original_size, trial_count,
                   original_trial_size, ref_index, ref_angle, line, line_status,
                   calls, nodes0, trial_nodes, ref_node, call_lines, prev_lines,
                   consumed>>

\* One pass of the association loop: lines 134-140.
AssocStep ==
    /\ pc = "assoc"
    /\ IF Dst2WithinEps(line, nodes[i].x, nodes[i].y, proximity_epsilon)
       THEN /\ nodes' = pop_node(i, nodes, size).nodes
            /\ size' = pop_node(i, nodes, size).size
            /\ last_pop' = i
       ELSE UNCHANGED <<nodes, size, last_pop>>
    /\ i' = i - 1
    /\ trial_hist' = [trial_hist EXCEPT !.evals = Append(@, i)]
    /\ pc' = IF i - 1 >= 0 THEN "assoc" ELSE "consensus"
    /\ UNCHANGED <<cfg_vars, reg_lines, original_size, trial_count,
                   original_trial_size, ref_index, ref_angle, line, line_status,
                   calls, nodes0, trial_nodes, ref_node, call_lines, prev_lines,
                   consumed>>

\* The consensus test, the final fit and the push of the line: lines 145-162.
Consensus ==
    /\ pc = "consensus"
    /\ LET popped_nodes == original_trial_size - size
           fit == compute_reg_line(size, original_trial_size, nodes, line)
       IN IF ConsensusMet(popped_nodes, line_consensus, line_status)
          THEN /\ line_status' = fit.status
               /\ line' = fit.line
               /\ reg_lines' = IF fit.status = 0 THEN Append(reg_lines, fit.line)
                               ELSE reg_lines
               /\ call_lines' = IF fit.status = 0 THEN Append(call_lines, fit.line)
                                ELSE call_lines
               /\ consumed' = IF fit.status = 0
                               THEN Append(consumed,
                                           [lo |-> size,
                                            hi |-> original_trial_size,
                                            nodes |-> nodes])
                               ELSE consumed
               /\ trial_hist' = [trial_hist EXCEPT !.popped = popped_nodes,
                                                   !.final_status = fit.status]
               /\ pc' = IF fit.status # 0 THEN "restore" ELSE "endtrial"
          ELSE /\ line_status' = -1
               /\ trial_hist' = [trial_hist EXCEPT !.popped = popped_nodes]
               /\ pc' = "restore"
               /\ UNCHANGED <<line, reg_lines, call_lines, consumed>>
    /\ UNCHANGED <<cfg_vars, nodes, size, original_size, trial_count,
                   original_trial_size, ref_index, ref_angle, i, calls, nodes0,
                   trial_nodes, ref_node, prev_lines, last_pop>>

\* The failed trial is rolled back: lines 162-166.
Restore ==
    /\ pc = "restore"
    /\ nodes' = restore_trial(nodes, original_trial_size).nodes
    /\ size' = restore_trial(nodes, original_trial_size).size
    /\ last_pop' = -1
    /\ trial_hist' = [trial_hist EXCEPT !.restored = TRUE]
    /\ pc' = "endtrial"
    /\ UNCHANGED <<cfg_vars, reg_lines, original_size, trial_count,
                   original_trial_size, ref_index, ref_angle, i, line, line_status,
                   calls, nodes0, trial_nodes, ref_node, call_lines, prev_lines,
                   consumed>>

\* The end of a trial without its line 168.
EndTrialUncounted ==
    /\ pc = "endtrial"
    /\ trial_hist' = NoTrial
    /\ pc' = "loop"
    /\ UNCHANGED <<cfg_vars, reg_lines, nodes, loc_vars, calls, nodes0,
                   trial_nodes, ref_node, call_lines, prev_lines, last_pop,
                   consumed>>

\* The trial is counted: line 168.
EndTrial ==
    /\ pc = "endtrial"
    /\ trial_count' = trial_count + 1
    /\ trial_hist' = NoTrial
    /\ pc' = "loop"
    /\ UNCHANGED <<cfg_vars, reg_lines, nodes, size, original_size,
                   original_trial_size, ref_index, ref_angle, i, line, line_status,
                   calls, nodes0, trial_nodes, ref_node, call_lines, prev_lines,
                   last_pop, consumed>>

Next ==
    \/ ComputeEnter
    \/ ComputeReturn
    \/ SeedSelect
    \/ GrowStep
    \/ PopRef
    \/ FitSeed
    \/ AssocStep
    \/ Consensus
    \/ Restore
    \/ EndTrial

-----------------------------------------------------------------------------
(* The object after construction and the array its caller holds: every     *)
(* configuration within the bounds, every array of at most MaxN nodes.     *)

NodeA == Node(0, 0, 0)
NodeB == Node(1, 1, 1)
NodeC == Node(2, 2, 2)
NodeD == Node(1, 0, 1)

SpecNodes == {NodeA, NodeB, NodeC, NodeD}

\* The state of the locals before compute runs.
InitLocals ==
    /\ reg_lines = << >>
    /\ size = 0
    /\ original_size = 0
    /\ trial_count = 0
    /\ original_trial_size = 0
    /\ ref_index = 0
    /\ ref_angle = 0
    /\ i = 0
    /\ line = NoLine
    /\ line_status = -1
    /\ calls = 0
    /\ nodes0 = nodes
    /\ trial_nodes = nodes
    /\ ref_node = Node(0, 0, 0)
    /\ call_lines = << >>
    /\ prev_lines = << >>
    /\ last_pop = -1
    /\ trial_hist = NoTrial
    /\ consumed = << >>

Init ==
    /\ max_trials \in 0 .. MaxTrials
    /\ sample_size \in 0 .. MaxSample
    /\ sample_deviation \in {0, 1}
    /\ proximity_epsilon \in {0, 10}
    /\ line_consensus \in 1 .. 3
    /\ nodes \in ArraysUpTo(SpecNodes, MaxN)
    /\ InitLocals
    /\ pc = "idle"

Spec == Init /\ [][Next]_vars

-----------------------------------------------------------------------------
(* Properties of compute, checked under Spec.                              *)

\* A trial that was rolled back has just ended.
RolledBack == pc = "endtrial" /\ line_status # 0

\* C1: in every state (each is reached by completed pop_node and
\* restore_trial calls only), and so when compute has returned, the array
\* holds the same bag of nodes as the array the call was entered with.
PermutationInvariance == BagOf(nodes) = BagOf(nodes0)

\* compute has returned from a call whose trials were all rolled back and
\* the array is in another order than the one passed.
PermutationWitness ==
    /\ pc = "idle" /\ calls = 1
    /\ trial_count >= 1 /\ reg_lines = << >>
    /\ nodes # nodes0

\* C2: after a rolled-back trial the active range is ascending by angle
\* and size is back to original_trial_size, the size the trial started with.
RollbackCorrectness ==
    RolledBack =>
        /\ SortedByAngle(nodes, 0, size)
        /\ size = original_trial_size

\* A trial that popped at least two nodes of at least three was rolled
\* back, and restore_trial had to move nodes to sort them.
RollbackWitness ==
    /\ RolledBack
    /\ size >= 3
    /\ nodes # trial_nodes
    /\ SortedByAngle(trial_nodes, 0, size)

\* C5: with max_trials = 0 a call of compute runs no trial, its result
\* sequence is empty and every node stays at its index.
TrialBudgetZero ==
    (max_trials = 0 /\ calls >= 1) =>
        /\ pc \in {"loop", "idle"}
        /\ trial_count = 0
        /\ reg_lines = << >>
        /\ nodes = nodes0

\* compute has returned from a call with max_trials = 0 on two or more nodes.
TrialBudgetZeroWitness ==
    /\ max_trials = 0 /\ calls >= 1 /\ pc = "idle"
    /\ Len0(nodes) >= 2

\* C6: during and after every call the result sequence holds exactly the
\* lines the trials of that call accepted, in the order of acceptance.
ResultReplacement == calls >= 1 => reg_lines = call_lines

\* A second call has returned; the first had left lines behind and the
\* second accepted some of its own.
ResultReplacementWitness ==
    /\ calls = 2 /\ pc = "idle"
    /\ prev_lines # << >>
    /\ reg_lines # << >>

\* C10: a trial that started on an angle-sorted active range and was rolled
\* back leaves every index below original_trial_size with the node it held
\* when the trial started.
RestoreRoundTrip ==
    (RolledBack /\ SortedByAngle(trial_nodes, 0, original_trial_size)) =>
        /\ size = original_trial_size
        /\ \A j \in 0 .. original_trial_size - 1 : nodes[j] = trial_nodes[j]

-----------------------------------------------------------------------------
(* The helpers called on their own: an array is drawn, then pop_node or    *)
(* compute_reg_line is applied to it once with arguments of its contract.  *)
(* trial_nodes and original_trial_size keep the array and the size (or the *)
(* end of the range) passed; size holds the size returned (or the start of *)
(* the range).                                                             *)

\* Nodes on y = 2x + 3, and nodes that share an x with one of them.  The
\* squares and products of 4097 and 4098 need 25 and 26 bits.
UnitNodes ==
    {Node(0, 3, 0), Node(1, 5, 1), Node(2, 7, 2), Node(4097, 8197, 3),
     Node(4098, 8199, 4), Node(1, 0, 5), Node(4097, 0, 6)}

UnitInit ==
    /\ max_trials = 0
    /\ sample_size = 0
    /\ sample_deviation = 0
    /\ proximity_epsilon = 0
    /\ line_consensus = 1
    /\ nodes \in ArraysUpTo(UnitNodes, MaxUnitLen)
    /\ InitLocals
    /\ pc = "unit"

\* pop_node(index, nodes, sz) for 0 <= index < sz <= N.
UnitPop ==
    /\ pc = "unit"
    /\ \E sz \in 1 .. Len0(nodes) : \E index \in 0 .. sz - 1 :
          /\ nodes' = pop_node(index, nodes, sz).nodes
          /\ size' = pop_node(index, nodes, sz).size
          /\ original_trial_size' = sz
          /\ last_pop' = index
    /\ trial_nodes' = nodes
    /\ pc' = "popped"
    /\ UNCHANGED <<cfg_vars, reg_lines, original_size, trial_count, ref_index,
                   ref_angle, i, line, line_status, calls, nodes0, ref_node,
                   call_lines, prev_lines, trial_hist, consumed>>

\* compute_reg_line(start, end, nodes, line) for 0 <= start <= end <= N.
UnitFit ==
    /\ pc = "unit"
    /\ \E end \in 0 .. Len0(nodes) : \E start \in 0 .. end :
          /\ line_status' = compute_reg_line(start, end, nodes, line).status
          /\ line' = compute_reg_line(start, end, nodes, line).line
          /\ size' = start
          /\ original_trial_size' = end
    /\ trial_nodes' = nodes
    /\ pc' = "fitted"
    /\ UNCHANGED <<cfg_vars, reg_lines, nodes, original_size, trial_count,
                   ref_index, ref_angle, i, calls, nodes0, ref_node, call_lines,
                   prev_lines, last_pop, trial_hist, consumed>>

UnitNext == UnitPop \/ UnitFit

UnitSpec == UnitInit /\ [][UnitNext]_vars

-----------------------------------------------------------------------------
(* Properties of the helpers, checked under UnitSpec.                      *)

\* The active nodes nd[0, sz) as a sequence.
ActiveSeq(nd, sz) == [k \in 1 .. sz |-> nd[k - 1]]

\* The sequence sq without its element at position k.
WithoutAt(sq, k) ==
    [j \in 1 .. Len(sq) - 1 |-> IF j < k THEN sq[j] ELSE sq[j + 1]]

\* C7: pop_node(index, nodes, size) with 0 <= index < size returns size - 1,
\* leaves the other active nodes in the order they had, puts the removed
\* node at the new boundary and changes nothing from the old size on.
PopContract ==
    pc = "popped" =>
        /\ size = original_trial_size - 1
        /\ ActiveSeq(nodes, size) =
              WithoutAt(ActiveSeq(trial_nodes, original_trial_size), last_pop + 1)
        /\ nodes[size] = trial_nodes[last_pop]
        /\ \A j \in original_trial_size .. Len0(nodes) - 1 : nodes[j] = trial_nodes[j]

\* A node that is neither the first nor the last active one was popped out
\* of three distinct active nodes.
PopWitness ==
    /\ pc = "popped"
    /\ original_trial_size = 3 /\ last_pop = 1
    /\ Cardinality({trial_nodes[j] : j \in 0 .. 2}) = 3

\* The fitted range [size, original_trial_size) of trial_nodes has no node,
\* one node, or two or more nodes that all have the same x.
DegenerateRange ==
    \A j \in size .. original_trial_size - 1 :
        trial_nodes[j].x = trial_nodes[size].x

\* C8: compute_reg_line over no node, one node, or nodes that share one x
\* returns -1.
DegenerateRejection ==
    (pc = "fitted" /\ DegenerateRange) => line_status = -1

\* The fitted range holds at least two nodes, with at least two distinct x,
\* all of them on y = 2x + 3.
OnLineRange ==
    /\ \A j \in size .. original_trial_size - 1 :
          trial_nodes[j].y = 2 * trial_nodes[j].x + 3
    /\ \E j, k \in size .. original_trial_size - 1 :
          trial_nodes[j].x # trial_nodes[k].x

\* C9: compute_reg_line over such a range returns 0 with slope 2 and
\* intercept 3.
RegressionCorrectness ==
    (pc = "fitted" /\ OnLineRange) =>
        /\ line_status = 0
        /\ line.m_denom # 0 /\ line.m_num = 2 * line.m_denom
        /\ line.b_denom # 0 /\ line.b_num = 3 * line.b_denom

-----------------------------------------------------------------------------
(* The end-to-end scenario: twelve nodes 5 degrees apart, six on y = x and *)
(* six on y = -x + 10, sample_size 3, sample_deviation 10 degrees,         *)
(* proximity_epsilon 0.1, line_consensus 4, max_trials 50; one call.       *)

ScenarioNodes ==
    [j \in 0 .. 11 |->
        IF j < 6 THEN Node(j - 1, j - 1, 5 * j)
        ELSE Node(j, 10 - j, 5 * j)]

ScenarioInit ==
    /\ max_trials = 50
    /\ sample_size = 3
    /\ sample_deviation = 10
    /\ proximity_epsilon = 1
    /\ line_consensus = 4
    /\ nodes = ScenarioNodes
    /\ InitLocals
    /\ pc = "idle"

\* The steps of the first call.
FirstCallNext ==
    \/ (calls = 0 /\ ComputeEnter)
    \/ ComputeReturn
    \/ SeedSelect
    \/ GrowStep
    \/ PopRef
    \/ FitSeed
    \/ AssocStep
    \/ Consensus
    \/ Restore
    \/ EndTrial

ScenarioSpec == ScenarioInit /\ [][FirstCallNext]_vars

\* The line has slope s.
HasSlope(ln, s) == ln.m_denom # 0 /\ ln.m_num = s * ln.m_denom

\* Exactly two lines, one of slope 1 and one of slope -1, in either order.
TwoLines(lines) ==
    /\ Len(lines) = 2
    /\ \E j, k \in 1 .. 2 :
          /\ j # k
          /\ HasSlope(lines[j], 1)
          /\ HasSlope(lines[k], -1)

\* C4 as stated: whatever the draws, the call on the scenario ends with
\* exactly two lines, one of slope 1 and one of slope -1.
ScenarioTwoLines == (pc = "idle" /\ calls = 1) => TwoLines(reg_lines)

\* The three nodes next to the corner: a reference drawn there takes its
\* seed cluster from both lines.
CornerNodes == {ScenarioNodes[5], ScenarioNodes[6], ScenarioNodes[7]}

\* C4 as amended: when the first reference drawn is not one of the three
\* nodes next to the corner, the first trial accepts a line of slope 1 or
\* -1, and a call whose first line has slope 1 or -1 ends after two trials
\* with exactly two lines, one of slope 1 and one of slope -1.
ScenarioTwoLinesAwayFromCorner ==
    /\ (pc = "endtrial" /\ trial_count = 0 /\ ref_node \notin CornerNodes) =>
           /\ Len(reg_lines) = 1
           /\ HasSlope(reg_lines[1], 1) \/ HasSlope(reg_lines[1], -1)
           /\ size = 6
    /\ (/\ pc = "idle" /\ calls = 1
        /\ reg_lines # << >>
        /\ HasSlope(reg_lines[1], 1) \/ HasSlope(reg_lines[1], -1)) =>
           /\ TwoLines(reg_lines)
           /\ trial_count = 2
           /\ size = 0

\* The call has ended with the line of slope -1 found first and the line
\* of slope 1 second.
ScenarioWitness ==
    /\ pc = "idle" /\ calls = 1
    /\ Len(reg_lines) = 2
    /\ HasSlope(reg_lines[1], -1) /\ HasSlope(reg_lines[2], 1)
    /\ trial_count = 2

-----------------------------------------------------------------------------
(* The consensus threshold, checked under Spec.                            *)

\* Every node of nd is within eps of one line y = a x + c with small
\* integer a and c.
ProximateCluster(nd, eps) ==
    \E a \in -2 .. 2 : \E c \in -2 .. 2 :
        \A j \in DOMAIN nd :
            Dst2WithinEps([m_num |-> a, m_denom |-> 1, b_num |-> c, b_denom |-> 1],
                          nd[j].x, nd[j].y, eps)

\* Every node of nd is exactly on one such line, and no two share an x.
CollinearCluster(nd) ==
    /\ ProximateCluster(nd, 0)
    /\ \A j, k \in DOMAIN nd : j # k => nd[j].x # nd[k].x

\* Neighbours in the array are at most dev apart in angle.
NeighboursWithin(nd, dev) ==
    \A j \in 0 .. Len0(nd) - 2 : Abs(nd[j + 1].angle - nd[j].angle) <= dev

\* C3 as stated: once compute has returned, a cluster of line_consensus - 1
\* proximate nodes has produced no line and a cluster of line_consensus
\* proximate nodes has produced one.
ConsensusThresholdAsStated ==
    (pc = "idle" /\ calls >= 1 /\ ProximateCluster(nodes0, proximity_epsilon)) =>
        /\ Len0(nodes0) = line_consensus - 1 => reg_lines = << >>
        /\ Len0(nodes0) = line_consensus => reg_lines # << >>

\* C3 as amended: an input of line_consensus - 1 nodes never produces a
\* line; an input of line_consensus >= 2 nodes exactly on one line, with
\* distinct x, sorted by angle with neighbours at most sample_deviation
\* apart, produces its line in the first trial when max_trials >= 1 and
\* sample_size >= 2.
ConsensusThreshold ==
    /\ (calls >= 1 /\ Len0(nodes0) = line_consensus - 1) => reg_lines = << >>
    /\ (/\ pc = "idle" /\ calls >= 1
        /\ Len0(nodes0) = line_consensus /\ line_consensus >= 2
        /\ max_trials >= 1 /\ sample_size >= 2
        /\ CollinearCluster(nodes0)
        /\ SortedByAngle(nodes0, 0, Len0(nodes0))
        /\ NeighboursWithin(nodes0, sample_deviation)) =>
           /\ Len(reg_lines) = 1
           /\ trial_count = 1
           /\ size = 0

\* compute has returned with the line of a cluster of three collinear
\* nodes, line_consensus being three.
ConsensusWitness ==
    /\ pc = "idle" /\ calls = 1
    /\ line_consensus = 3 /\ Len0(nodes0) = 3
    /\ max_trials >= 1 /\ sample_size >= 2
    /\ CollinearCluster(nodes0)
    /\ SortedByAngle(nodes0, 0, 3)
    /\ NeighboursWithin(nodes0, sample_deviation)
    /\ Len(reg_lines) = 1

-----------------------------------------------------------------------------
(* Termination.  compute is synchronous and single threaded: a call that   *)
(* can take a step takes it, which is weak fairness of the next-state      *)
(* relation.                                                               *)

\* The objects whose thresholds let trials be accepted as well as rolled
\* back; the loop's control does not read the thresholds.
TerminationInit ==
    /\ Init
    /\ sample_deviation = 1
    /\ proximity_epsilon = 10
    /\ line_consensus = 2

FairSpec ==
    TerminationInit /\ [][FirstCallNext]_vars /\ WF_vars(FirstCallNext)

\* C11: every call returns; a trial, accepted or rolled back, advances the
\* trial counter by exactly one and nothing else does within a call; the
\* counter never passes max_trials; the loop is left exactly when size is 0
\* or the counter has reached max_trials.
BoundedTermination ==
    /\ [](trial_count <= max_trials)
    /\ []((pc = "idle" /\ calls >= 1) => (size = 0 \/ trial_count = max_trials))
    /\ []((pc \notin {"idle", "loop"}) => trial_count < max_trials)
    /\ [][(pc = "endtrial" => trial_count' = trial_count + 1)
          /\ (pc \notin {"endtrial", "idle"} => trial_count' = trial_count)
          /\ ((pc = "loop" /\ (size = 0 \/ trial_count = max_trials)) => pc' = "idle")
          /\ ((pc = "loop" /\ size > 0 /\ trial_count < max_trials) => pc' # "idle")]_vars
    /\ (pc # "idle") ~> (pc = "idle")

\* A call has returned after max_trials = 2 trials, the first accepted and
\* the second rolled back, with nodes still active.
BoundedTerminationWitness ==
    /\ pc = "idle" /\ calls = 1
    /\ max_trials = 2 /\ trial_count = 2
    /\ Len(reg_lines) = 1 /\ line_status # 0
    /\ size > 0

-----------------------------------------------------------------------------
(* The outcome of a trial, read at its end (before line 168).              *)

\* The four conditions of an accepted trial: a seed cluster of at least two
\* nodes, a seed fit that succeeded, a removed count of at least
\* line_consensus, a final fit that ran and succeeded.
AcceptConditions ==
    /\ trial_hist.seed_size >= 2
    /\ trial_hist.seed_status = 0
    /\ trial_hist.popped >= line_consensus
    /\ trial_hist.final_status = 0

\* The trial pushed exactly one line, the one it fitted, and did not restore.
TrialAccepted ==
    /\ reg_lines = Append(trial_hist.lines_before, line)
    /\ ~trial_hist.restored
    /\ size = original_trial_size - trial_hist.popped

\* The trial called restore_trial and left the result sequence alone.
TrialRolledBack ==
    /\ reg_lines = trial_hist.lines_before
    /\ trial_hist.restored
    /\ size = original_trial_size

\* C12: a trial ends accepted or rolled back, never both and never neither;
\* it is accepted (one line appended) exactly when the seed cluster had at
\* least two nodes, the seed fit succeeded, original_trial_size - size
\* reached line_consensus and the final fit succeeded; otherwise
\* restore_trial ran and reg_lines is as it was when the trial started.
TrialOutcome ==
    pc = "endtrial" =>
        /\ TrialAccepted # TrialRolledBack
        /\ TrialAccepted <=> AcceptConditions

\* The second trial of a call ends accepted with three nodes removed after
\* the first was rolled back.
TrialOutcomeWitness ==
    /\ pc = "endtrial" /\ trial_count = 1
    /\ AcceptConditions /\ TrialAccepted
    /\ trial_hist.popped = 3
    /\ Len(reg_lines) = 1

\* A trial whose seed fit succeeded ends rolled back for want of consensus.
TrialOutcomeRollbackReached ==
    /\ pc = "endtrial"
    /\ trial_hist.seed_status = 0 /\ trial_hist.popped < line_consensus
    /\ TrialRolledBack

-----------------------------------------------------------------------------
(* The association scan of a trial whose seed fit succeeded.               *)

\* The active size when the scan started: the seed cluster lies above it.
ScanSize == original_trial_size - trial_hist.seed_size

\* The indices n-1, n-2, ..., lo in that order.
DownFrom(n, lo) == [k \in 1 .. n - lo |-> n - k]

\* The computed distance test of the scan for the node held at nd[k].
NearSeedLine(nd, k) ==
    Dst2WithinEps(line, nd[k].x, nd[k].y, proximity_epsilon)

\* C13: the scan evaluates the nodes active at its start from the highest
\* index to the lowest, each exactly once and each still where it was when
\* the scan started; when the scan has ended no active node is within
\* proximity_epsilon of the seed line, every node the scan removed is, and
\* the nodes of the scan range are those it started with.
AssociationCompleteness ==
    /\ pc = "assoc" =>
          /\ 0 <= i /\ i < size
          /\ trial_hist.evals = DownFrom(ScanSize, i + 1)
          /\ \A k \in 0 .. i : nodes[k] = trial_hist.scan_nodes[k]
    /\ (pc = "consensus" /\ trial_hist.seed_status = 0) =>
          /\ trial_hist.evals = DownFrom(ScanSize, 0)
          /\ \A k \in 0 .. size - 1 : ~NearSeedLine(nodes, k)
          /\ \A k \in size .. ScanSize - 1 : NearSeedLine(nodes, k)
          /\ BagOfRange(nodes, 0, ScanSize)
                = BagOfRange(trial_hist.scan_nodes, 0, ScanSize)
          /\ \A k \in ScanSize .. Len0(nodes) - 1 :
                nodes[k] = trial_hist.scan_nodes[k]

\* A scan of eight nodes has ended: it kept nodes above nodes it removed,
\* so kept nodes were shifted down while lower indices were still to come.
AssociationWitness ==
    /\ pc = "consensus" /\ trial_hist.seed_status = 0
    /\ ScanSize = 8 /\ Len(trial_hist.evals) = 8
    /\ size >= 2 /\ ScanSize - size >= 2
    /\ \E lo \in 0 .. ScanSize - 1 : \E hi \in lo + 1 .. ScanSize - 1 :
          /\ NearSeedLine(trial_hist.scan_nodes, lo)
          /\ ~NearSeedLine(trial_hist.scan_nodes, hi)

-----------------------------------------------------------------------------
(* The reference node while the seed cluster grows.                        *)

\* C14: from the draw until the reference is popped, after every pass of
\* the sampling loop (wrap-around picks included), ref_index is an active
\* index and nodes[ref_index] is the node that was drawn, at the angle read
\* at the draw; a neighbour just popped lies outside the active range, so
\* the reference was not popped as a neighbour; once line 119 has run the
\* reference is the last node popped, at the low end of the seed cluster.
ReferenceTracking ==
    /\ pc \in {"grow", "popref"} =>
          /\ 0 <= ref_index /\ ref_index < size
          /\ nodes[ref_index] = ref_node
          /\ nodes[ref_index].angle = ref_angle
          /\ BagOfRange(nodes, size, original_trial_size)
                (+) SetToBag({ref_node}) \sqsubseteq BagOf(trial_nodes)
    /\ pc = "fitseed" =>
          /\ size < original_trial_size
          /\ nodes[size] = ref_node
          /\ last_pop = ref_index

\* Both passes of the sampling loop popped a neighbour of a reference drawn
\* at the highest index of three distinct nodes: the second pick wrapped
\* around to index 0, below the reference, and ref_index followed down to 0.
ReferenceWitness ==
    /\ pc = "popref" /\ i = 2
    /\ original_trial_size = 3 /\ size = 1
    /\ last_pop = 0 /\ ref_index = 0
    /\ trial_nodes[2] = ref_node
    /\ Cardinality({trial_nodes[k] : k \in 0 .. 2}) = 3

-----------------------------------------------------------------------------
(* The nodes removed by accepted trials.                                   *)

\* A trial is running or has just ended.
InTrial == pc \notin {"idle", "loop"}

\* C15: the nodes an accepted trial removed lie in
\* nodes[size, original_trial_size) when it ends; from then on they stay
\* where they are, outside the active range; a running trial reads and
\* writes only indices below its own original_trial_size and leaves every
\* node at or above it in place; the active size at the end of a trial is
\* never above the size at its start.
ConsumedStayConsumed ==
    /\ (pc = "endtrial" /\ line_status = 0) =>
          BagOfRange(nodes, 0, size)
             (+) BagOfRange(nodes, size, original_trial_size)
             = BagOfRange(trial_nodes, 0, original_trial_size)
    /\ pc # "idle" =>
          \A n \in 1 .. Len(consumed) :
             /\ size <= consumed[n].lo
             /\ \A k \in consumed[n].lo .. consumed[n].hi - 1 :
                   nodes[k] = consumed[n].nodes[k]
    /\ InTrial =>
          /\ size <= original_trial_size
          /\ StepIndices \subseteq 0 .. original_trial_size - 1
          /\ \A k \in original_trial_size .. Len0(nodes) - 1 :
                nodes[k] = trial_nodes[k]

\* A trial that started with several active nodes after an accepted trial
\* has been rolled back: restore_trial sorted the active range below the
\* removed nodes.
ConsumedWitness ==
    /\ pc = "endtrial" /\ trial_hist.restored
    /\ Len(consumed) = 1
    /\ original_trial_size >= 3
    /\ consumed[1].hi - consumed[1].lo >= 4
    /\ trial_hist.popped >= 2

-----------------------------------------------------------------------------
(* The order of the active range.                                          *)

\* C16: when the array passed to compute is ascending by angle, the active
\* range nodes[0, size) is ascending by angle whenever the while test of
\* line 90 is made, after an accepted trial and after a rolled-back trial
\* alike.
SortednessInvariant ==
    (SortedByAngle(nodes0, 0, Len0(nodes0)) /\ pc \in {"loop", "endtrial"}) =>
        SortedByAngle(nodes, 0, size)

\* The while test is about to be made on eight active nodes after an
\* accepted trial and then a rolled-back trial that had popped nodes.
SortednessWitness ==
    /\ pc = "loop" /\ trial_count >= 2
    /\ SortedByAngle(nodes0, 0, Len0(nodes0))
    /\ Len(reg_lines) = 1 /\ last_pop = -1
    /\ size = 8

-----------------------------------------------------------------------------
(* The indices compute and its helpers use.                                *)

\* The arguments of the pop_node call the step about to run makes, if it
\* makes one.
PopCall ==
    CASE pc = "grow" /\ size > 0 ->
            LET pick == Pick(i, ref_index, size)
            IN IF PickAccepted(nodes, pick, ref_index, ref_angle,
                               sample_deviation)
               THEN {<<pick, size>>} ELSE {}
      [] pc = "popref" -> {<<ref_index, size>>}
      [] pc = "assoc" ->
            IF Dst2WithinEps(line, nodes[i].x, nodes[i].y, proximity_epsilon)
            THEN {<<i, size>>} ELSE {}
      [] OTHER -> {}

\* C17: for every array length N >= 0 and every sample_size >= 0, whatever
\* is drawn, every index the next step reads or writes lies in [0, N);
\* pop_node is called with size >= 1 and 0 <= node < size; the remainders
\* of lines 93, 102 and 105 are taken with size > 0.
IndexSafety ==
    /\ StepIndices \subseteq 0 .. Len0(nodes) - 1
    /\ \A c \in PopCall : c[2] >= 1 /\ 0 <= c[1] /\ c[1] < c[2]
    /\ (pc = "loop" /\ WhileTest(size, trial_count, max_trials)) => size > 0
    /\ pc = "grow" => size > 0
    /\ pc = "assoc" => 0 <= i /\ i < size
    /\ InTrial => 0 <= size /\ original_trial_size <= Len0(nodes)

\* The second pass of the sampling loop is about to take the remainder by
\* size 1: of two nodes the neighbour has been popped, the reference is the
\* only active node.
IndexSafetyWitness ==
    /\ pc = "grow" /\ i = 1
    /\ Len0(nodes) = 2 /\ original_trial_size = 2
    /\ size = 1 /\ ref_index = 0
    /\ Pick(i, ref_index, size) = ref_index

-----------------------------------------------------------------------------
(* The final fit.                                                          *)

\* The float products of compute_reg_line (lines 193-194) are exact for
\* every node of the array; the double sums and differences of integers of
\* this size are exact as well.
ExactProducts(nd) ==
    \A k \in DOMAIN nd :
       /\ Fl32(nd[k].x * nd[k].x) = nd[k].x * nd[k].x
       /\ Fl32(nd[k].x * nd[k].y) = nd[k].x * nd[k].y

\* C18: in exact arithmetic, a trial whose seed fit succeeded and whose
\* removed count reached line_consensus has a final fit that succeeds; a
\* trial is therefore rolled back only when its seed cluster had fewer than
\* two nodes, its seed fit failed, or the consensus was not met.
FinalRefitSucceeds ==
    /\ (pc \in {"restore", "endtrial"}
          /\ ExactProducts(nodes)
          /\ trial_hist.seed_status = 0
          /\ trial_hist.popped >= line_consensus) =>
          trial_hist.final_status = 0
    /\ (pc = "endtrial" /\ ExactProducts(nodes) /\ trial_hist.restored) =>
          \/ trial_hist.seed_size < 2
          \/ trial_hist.seed_status # 0
          \/ trial_hist.popped < line_consensus

\* A final fit over three nodes, one of them added by the association scan
\* to a seed cluster of two, has succeeded.
FinalRefitWitness ==
    /\ pc = "endtrial" /\ ExactProducts(nodes)
    /\ trial_hist.seed_size = 2 /\ trial_hist.seed_status = 0
    /\ trial_hist.popped = 3 /\ line_consensus = 3
    /\ trial_hist.final_status = 0
    /\ Len(reg_lines) = 1

-----------------------------------------------------------------------------
(* The nodes behind the accepted lines.                                    *)

\* The larger of two integers.
Max(a, b) == IF a >= b THEN a ELSE b

\* The fewest nodes an accepted line removes.
LeastRemoved == Max(2, line_consensus)

\* C19: whenever the while test of line 90 is made, each line of reg_lines
\* is the fit of its own range of removed nodes; the ranges are pairwise
\* disjoint, lie in nodes[size, N) and hold at least max(2, line_consensus)
\* nodes each, so N - size >= max(2, line_consensus) * (number of lines);
\* the number of lines is at most the number of trials run.
DisjointConsumption ==
    pc = "loop" =>
        /\ Len(consumed) = Len(reg_lines)
        /\ \A n \in 1 .. Len(consumed) :
              /\ size <= consumed[n].lo
              /\ consumed[n].hi <= Len0(nodes)
              /\ consumed[n].hi - consumed[n].lo >= LeastRemoved
              /\ compute_reg_line(consumed[n].lo, consumed[n].hi, nodes, NoLine)
                    = [status |-> 0, line |-> reg_lines[n]]
              /\ \A m \in 1 .. n - 1 : consumed[n].hi <= consumed[m].lo
        /\ Len0(nodes) - size >= LeastRemoved * Len(reg_lines)
        /\ Len(reg_lines) <= trial_count

\* Three lines have been accepted in three trials, from ranges of four
\* nodes each, and no node is left.
DisjointConsumptionWitness ==
    /\ pc = "loop"
    /\ Len(reg_lines) = 3 /\ trial_count = 3
    /\ size = 0
    /\ \A n \in 1 .. 3 : consumed[n].hi - consumed[n].lo = 4

=============================================================================
